---- MODULE Spec2Model ----
(***************************************************************************)
(* Model of mysql_mcp_server/main.py: the POST /query endpoint             *)
(* (verify_api_key, process_query, handle_request, get_db_connection) and  *)
(* the GET /health endpoint (health_check).                                *)
(*                                                                         *)
(* process_query is an "async def" that calls handle_request without ever  *)
(* awaiting, so at most one /query invocation is in progress on the event   *)
(* loop; health_check is a plain "def" and runs on a worker thread, so it  *)
(* interleaves with the /query invocation at every database call.          *)
(*                                                                         *)
(* Text is a sequence of one-character strings where the code inspects     *)
(* characters (the statement, the table name) and a sequence of pieces     *)
(* where the code only concatenates (f-strings).                           *)
(***************************************************************************)
EXTENDS Integers, Sequences, FiniteSets, TLC

\* ------------------------------------------------------------------ bounds

\* Requests (to either endpoint) accepted in one behaviour.
MaxRequests == 3

\* ------------------------------------------------------- configuration

\* main.py:16  API_KEY = os.getenv("API_KEY")
API_KEY == "secret"

\* The credentials a request may carry: none, the key, another token.
NoCreds == [present |-> FALSE, credentials |-> ""]

Bearer(token) == [present |-> TRUE, credentials |-> token]

CredsInputs == {NoCreds, Bearer(API_KEY), Bearer("wrong"), Bearer("")}

\* ------------------------------------------------------------ Python values

\* None, and a str value as its characters.
None == [type |-> "NoneType", chars |-> <<>>]

Str(s) == [type |-> "str", chars |-> s]

\* Python truthiness of None and of str: "not v".
Falsy(v) == v.type = "NoneType" \/ Len(v.chars) = 0

\* dict.get(key, default)
Get(d, key, default) == IF key \in DOMAIN d THEN d[key] ELSE default

EmptyDict == [k \in {} |-> None]

\* str.lower() on the letters the inputs use.
UpperToLower ==
    [A |-> "a", B |-> "b", C |-> "c", D |-> "d", E |-> "e", F |-> "f",
     G |-> "g", H |-> "h", I |-> "i", J |-> "j", K |-> "k", L |-> "l",
     M |-> "m", N |-> "n", O |-> "o", P |-> "p", Q |-> "q", R |-> "r",
     S |-> "s", T |-> "t", U |-> "u", V |-> "v", W |-> "w", X |-> "x",
     Y |-> "y", Z |-> "z"]

Lower(s) ==
    [i \in 1..Len(s) |-> IF s[i] \in DOMAIN UpperToLower
                         THEN UpperToLower[s[i]] ELSE s[i]]

\* Python's "kw in s" on str: kw occurs as a contiguous substring.
Contains(s, kw) ==
    \E i \in 1..(Len(s) - Len(kw) + 1) : SubSeq(s, i, i + Len(kw) - 1) = kw

KwDelete == <<"d", "e", "l", "e", "t", "e">>

KwDrop == <<"d", "r", "o", "p">>

KwUpdate == <<"u", "p", "d", "a", "t", "e">>

KwInsert == <<"i", "n", "s", "e", "r", "t">>

\* A variant of the check that forgets .lower().
ContainsBlockedKeyword_CaseSensitive(statement) ==
    \/ Contains(statement, KwDelete)
    \/ Contains(statement, KwDrop)
    \/ Contains(statement, KwUpdate)
    \/ Contains(statement, KwInsert)

\* main.py:95
ContainsBlockedKeyword(statement) ==
    \/ Contains(Lower(statement), KwDelete)
    \/ Contains(Lower(statement), KwDrop)
    \/ Contains(Lower(statement), KwUpdate)
    \/ Contains(Lower(statement), KwInsert)

\* ------------------------------------------------------------------ inputs

VerbInputs == {"list_resources", "read", "execute", "describe"}

NameInputs == {<<>>, <<"t">>}

StatementInputs ==
    { <<>>,
      <<"S", "E", "L", "E", "C", "T", " ", "1">>,
      <<"s", "e", "l", "e", "c">>,
      <<"D", "R", "O", "P", " ", "t">>,
      <<"d", "e", "l", "e", "t", "e">>,
      <<"I", "n", "S", "e", "R", "t">>,
      <<"x", "u", "p", "d", "a", "t", "e", "d">>,
      <<"d", "r", "o", " ", "p">> }

\* The "parameters" dict with the given keys.
Parameters(keys, name, statement) ==
    [k \in keys |-> IF k = "name" THEN Str(name) ELSE Str(statement)]

\* The mcp_request dict.
McpRequest(verb, hasParameters, parameters) ==
    [k \in {"verb"} \cup (IF hasParameters THEN {"parameters"} ELSE {}) |->
        IF k = "verb" THEN verb ELSE parameters]

\* What the driver can say when it fails.
DriverTexts == {"err1", "err2"}

\* What a query can return.
RowSets == {<<>>, <<"r1">>}

\* -------------------------------------------------------------- exceptions

NoExc == [type |-> "none", status_code |-> 0, detail |-> <<>>]

\* fastapi.HTTPException(status_code, detail)
HTTPException(status_code, detail) ==
    [type |-> "HTTPException", status_code |-> status_code, detail |-> detail]

\* mysql.connector.Error whose str() is text
DriverError(text) ==
    [type |-> "mysql.connector.Error", status_code |-> 0, detail |-> <<text>>]

\* str(e)
StrExc(e) ==
    IF e.type = "HTTPException"
    THEN <<"500: ">> \o e.detail
    ELSE e.detail

\* main.py:34
InvalidApiKey == HTTPException(401, <<"Invalid API key">>)

\* A variant that compares nothing and only asks for credentials.
RejectsCreds_PresenceOnly(creds) == ~creds.present

\* main.py:33  not creds or creds.credentials != API_KEY
RejectsCreds(creds) == ~creds.present \/ creds.credentials # API_KEY

\* main.py:49  logging.error(f"Database connection failed: {err}")
ConnectionErrorLog(text) == <<"Database connection failed: ", text>>

\* A variant that keeps the driver's text out of the response.
ConnectionErrorDetail_Generic(text) == <<"Database connection error">>

\* main.py:50  detail=f"Database connection error: {err}"
ConnectionErrorDetail(text) == <<"Database connection error: ", text>>

\* main.py:79
TableNameRequired == [error |-> <<"Table name is required for read verb.">>]

\* main.py:92
StatementRequired == [error |-> <<"SQL statement is required for execute verb.">>]

\* main.py:96
OnlySelectAllowed ==
    [error |-> <<"Only SELECT statements are allowed for security reasons.">>]

\* main.py:105  {"error": f"SQL Error: {err}"}
SqlError(text) == [error |-> <<"SQL Error: ", text>>]

\* main.py:111  {"error": f"Unsupported verb: {verb}"}
UnsupportedVerb(verb) == [error |-> <<"Unsupported verb: ", verb>>]

\* main.py:70
ShowTables == <<"SHOW TABLES;">>

\* main.py:83: the table name goes into the text as it is, between
\* backquotes (written BQ here).
SelectAll(table_name) ==
    <<"SELECT * FROM ", "BQ">> \o table_name \o <<"BQ", " LIMIT 100;">>

\* main.py:74
Resources(tables) ==
    [resources |->
        [i \in 1..Len(tables) |->
            [name |-> tables[i], description |-> <<"Table: ", tables[i]>>]]]

\* main.py:130  logging.error(f"An unexpected error occurred: {e}")
UnexpectedErrorLog(e) == <<"An unexpected error occurred: ">> \o StrExc(e)

\* A variant that puts str(e) into the response.
UnexpectedErrorDetail_Leaky(e) ==
    <<"An internal server error occurred: ">> \o StrExc(e)

\* main.py:131
UnexpectedErrorDetail(e) == <<"An internal server error occurred.">>

\* ------------------------------------------------------------ HTTP responses

NoResponse == [status |-> 0, body |-> EmptyDict]

\* What the framework sends for a raised HTTPException.
RaisedResponse(e) == [status |-> e.status_code, body |-> [detail |-> e.detail]]

\* What the framework sends for a value returned by the endpoint: 200 and
\* the value's JSON encoding (an object's attributes when it is no dict).
ReturnedResponse(value) == [status |-> 200, body |-> value]

\* The attributes of an HTTPException object.
Vars(e) == [status_code |-> e.status_code, detail |-> e.detail, headers |-> None]

\* main.py:139
HealthOk == [status |-> "ok", database_connection |-> "successful"]

\* main.py:141
HealthError(e) ==
    [status |-> "error", database_connection |-> "failed", detail |-> StrExc(e)]

\* -------------------------------------------------------------------- state

VARIABLES
    pc,             \* where the POST /query invocation stands
    creds,          \* the credentials of the request
    request_data,   \* request.mcp_request
    conn,           \* handle_request's local conn: a connection id, or 0
    rows,           \* what cursor.fetchall() returned
    response_data,  \* handle_request's response_data, then its return value
    exc,            \* the exception propagating out of handle_request
    http,           \* the HTTP response of POST /query
    events,         \* what the invocation did, in order
    sent,           \* the SQL texts the invocation sent to the database
    logged,         \* what the invocation logged
    hpc,            \* where the GET /health invocation stands
    hconn,          \* health_check's local conn
    hhttp,          \* the HTTP response of GET /health
    hlogged,        \* what the GET /health invocation logged
    open,           \* the connections that are open
    nconn,          \* connections opened so far
    nreq            \* requests accepted so far

vars ==
    <<pc, creds, request_data, conn, rows, response_data, exc, http, events,
      sent, logged, hpc, hconn, hhttp, hlogged, open, nconn, nreq>>

qvars ==
    <<pc, creds, request_data, conn, rows, response_data, exc, http, events,
      sent, logged>>

hvars == <<hpc, hconn, hhttp, hlogged>>

NoRequest == [verb |-> "none"]

Init ==
    /\ pc = "idle"
    /\ creds = NoCreds
    /\ request_data = NoRequest
    /\ conn = 0
    /\ rows = <<>>
    /\ response_data = EmptyDict
    /\ exc = NoExc
    /\ http = NoResponse
    /\ events = <<>>
    /\ sent = <<>>
    /\ logged = {}
    /\ hpc = "idle"
    /\ hconn = 0
    /\ hhttp = NoResponse
    /\ hlogged = {}
    /\ open = {}
    /\ nconn = 0
    /\ nreq = 0

\* handle_request's reads of the request (main.py:65, 77, 90).
verb == Get(request_data, "verb", "None")

table_name == Get(Get(request_data, "parameters", EmptyDict), "name", None)

statement == Get(Get(request_data, "parameters", EmptyDict), "statement", None)

\* ------------------------------------------------------------- POST /query

\* A POST /query request arrives with a bearer token (or none) and a body.
PostQuery ==
    /\ pc = "idle"
    /\ nreq < MaxRequests
    /\ \E c \in CredsInputs, v \in VerbInputs, hasParameters \in BOOLEAN,
          keys \in SUBSET {"name", "statement"},
          name \in NameInputs, stmt \in StatementInputs :
            /\ creds' = c
            /\ request_data' =
                   McpRequest(v, hasParameters, Parameters(keys, name, stmt))
    /\ pc' = "verify_api_key"
    /\ nreq' = nreq + 1
    /\ UNCHANGED <<conn, rows, response_data, exc, http, events, sent, logged,
                   open, nconn>>
    /\ UNCHANGED hvars

\* main.py:31-35, the dependency of the route (main.py:116).
verify_api_key ==
    /\ pc = "verify_api_key"
    /\ events' = Append(events, "token_check")
    /\ IF RejectsCreds(creds)
       THEN /\ http' = RaisedResponse(InvalidApiKey)
            /\ pc' = "done"
       ELSE /\ http' = http
            /\ pc' = "handle_request"
    /\ UNCHANGED <<creds, request_data, conn, rows, response_data, exc, sent,
                   logged, open, nconn, nreq>>
    /\ UNCHANGED hvars

\* main.py:64-67, 76-79, 89-96, 110-113: the branch on the verb and the
\* checks before any connection is opened.
handle_request ==
    /\ pc = "handle_request"
    /\ \/ /\ verb = "list_resources"
          /\ pc' = "get_db_connection"
          /\ response_data' = response_data
       \/ /\ verb = "read"
          /\ IF Falsy(table_name)
             THEN /\ response_data' = TableNameRequired
                  /\ pc' = "process_query"
             ELSE /\ response_data' = response_data
                  /\ pc' = "get_db_connection"
       \/ /\ verb = "execute"
          /\ IF Falsy(statement)
             THEN /\ response_data' = StatementRequired
                  /\ pc' = "process_query"
             ELSE IF ContainsBlockedKeyword(statement.chars)
             THEN /\ response_data' = OnlySelectAllowed
                  /\ pc' = "process_query"
             ELSE /\ response_data' = response_data
                  /\ pc' = "get_db_connection"
       \/ /\ verb \notin {"list_resources", "read", "execute"}
          /\ response_data' = UnsupportedVerb(verb)
          /\ pc' = "process_query"
    /\ UNCHANGED <<creds, request_data, conn, rows, exc, http, events, sent,
                   logged, open, nconn, nreq>>
    /\ UNCHANGED hvars

\* main.py:37-50 called from main.py:68, 81, 98.
get_db_connection ==
    /\ pc = "get_db_connection"
    /\ \/ /\ conn' = nconn + 1
          /\ nconn' = nconn + 1
          /\ open' = open \cup {nconn + 1}
          /\ events' = Append(events, "connect")
          /\ pc' = "cursor_execute"
          /\ UNCHANGED <<exc, logged>>
       \/ \E text \in DriverTexts :
            /\ logged' = logged \cup {ConnectionErrorLog(text)}
            /\ exc' = HTTPException(500, ConnectionErrorDetail(text))
            /\ events' = Append(events, "connect_failed")
            /\ pc' = "process_query"
            /\ UNCHANGED <<conn, nconn, open>>
    /\ UNCHANGED <<creds, request_data, rows, response_data, http, sent, nreq>>
    /\ UNCHANGED hvars

\* The SQL text the branch sends (main.py:70, 83, 101).
Sql ==
    IF verb = "list_resources" THEN ShowTables
    ELSE IF verb = "read" THEN SelectAll(table_name.chars)
    ELSE statement.chars

\* A driver error inside handle_request: caught in the execute branch alone
\* (main.py:100-105), where control goes on to the finally block; in the
\* other branches it leaves handle_request at once (main.py:70-73, 83-86).
QueryFails(text) ==
    IF verb = "execute"
    THEN /\ response_data' = SqlError(text)
         /\ exc' = exc
         /\ pc' = "close"
    ELSE /\ response_data' = response_data
         /\ exc' = DriverError(text)
         /\ pc' = "process_query"

\* main.py:69-70, 82-83, 99-101: cursor.execute(...)
cursor_execute ==
    /\ pc = "cursor_execute"
    /\ events' = Append(events, "query")
    /\ sent' = Append(sent, Sql)
    /\ \/ /\ pc' = "fetchall"
          /\ UNCHANGED <<response_data, exc>>
       \/ \E text \in DriverTexts : QueryFails(text)
    /\ UNCHANGED <<creds, request_data, conn, rows, http, logged, open, nconn,
                   nreq>>
    /\ UNCHANGED hvars

\* main.py:71, 84, 102-103: cursor.fetchall()
cursor_fetchall ==
    /\ pc = "fetchall"
    /\ \/ \E r \in RowSets :
            /\ rows' = r
            /\ events' = Append(events, "materialize")
            /\ response_data' =
                   IF verb = "execute" THEN [results |-> r] ELSE response_data
            /\ exc' = exc
            /\ pc' = "close"
       \/ /\ \E text \in DriverTexts : QueryFails(text)
          /\ UNCHANGED <<rows, events>>
    /\ UNCHANGED <<creds, request_data, conn, http, sent, logged, open, nconn,
                   nreq>>
    /\ UNCHANGED hvars

\* main.py:72-74, 85-87, 106-108, 113: cursor.close(), conn.close(), and the
\* result of the list_resources and read branches.
conn_close ==
    /\ pc = "close"
    /\ open' = open \ {conn}
    /\ events' = Append(events, "disconnect")
    /\ response_data' =
           IF verb = "list_resources" THEN Resources(rows)
           ELSE IF verb = "read" THEN [data |-> rows]
           ELSE response_data
    /\ pc' = "process_query"
    /\ UNCHANGED <<creds, request_data, conn, rows, exc, http, sent, logged,
                   nconn, nreq>>
    /\ UNCHANGED hvars

\* main.py:119-131: what process_query does with handle_request's outcome.
process_query ==
    /\ pc = "process_query"
    /\ events' = Append(events, "respond")
    /\ \/ /\ exc.type = "none"
          /\ "error" \in DOMAIN response_data
          /\ http' = ReturnedResponse(
                         Vars(HTTPException(400, response_data["error"])))
          /\ logged' = logged
       \/ /\ exc.type = "none"
          /\ "error" \notin DOMAIN response_data
          /\ http' = ReturnedResponse(response_data)
          /\ logged' = logged
       \/ /\ exc.type = "HTTPException"
          /\ http' = RaisedResponse(exc)
          /\ logged' = logged
       \/ /\ exc.type \notin {"none", "HTTPException"}
          /\ logged' = logged \cup {UnexpectedErrorLog(exc)}
          /\ http' = RaisedResponse(HTTPException(500, UnexpectedErrorDetail(exc)))
    /\ pc' = "done"
    /\ UNCHANGED <<creds, request_data, conn, rows, response_data, exc, sent,
                   open, nconn, nreq>>
    /\ UNCHANGED hvars

\* The response is sent and the invocation's locals are gone.
QueryDone ==
    /\ pc = "done"
    /\ pc' = "idle"
    /\ creds' = NoCreds
    /\ request_data' = NoRequest
    /\ conn' = 0
    /\ rows' = <<>>
    /\ response_data' = EmptyDict
    /\ exc' = NoExc
    /\ http' = NoResponse
    /\ events' = <<>>
    /\ sent' = <<>>
    /\ logged' = {}
    /\ UNCHANGED <<open, nconn, nreq>>
    /\ UNCHANGED hvars

\* ------------------------------------------------------------- GET /health

\* A GET /health request arrives.
GetHealth ==
    /\ hpc = "idle"
    /\ nreq < MaxRequests
    /\ hpc' = "get_db_connection"
    /\ nreq' = nreq + 1
    /\ UNCHANGED <<hconn, hhttp, hlogged, open, nconn>>
    /\ UNCHANGED qvars

\* main.py:136-137, 140-141: get_db_connection() inside the try.
health_get_db_connection ==
    /\ hpc = "get_db_connection"
    /\ \/ /\ hconn' = nconn + 1
          /\ nconn' = nconn + 1
          /\ open' = open \cup {nconn + 1}
          /\ hpc' = "close"
          /\ UNCHANGED <<hhttp, hlogged>>
       \/ \E text \in DriverTexts :
            /\ hlogged' = hlogged \cup {ConnectionErrorLog(text)}
            /\ hhttp' = ReturnedResponse(
                   HealthError(HTTPException(500, ConnectionErrorDetail(text))))
            /\ hpc' = "done"
            /\ UNCHANGED <<hconn, nconn, open>>
    /\ UNCHANGED nreq
    /\ UNCHANGED qvars

\* A variant that answers without closing the connection.
health_conn_close_Forgotten ==
    /\ hpc = "close"
    /\ hhttp' = ReturnedResponse(HealthOk)
    /\ hpc' = "done"
    /\ UNCHANGED <<hconn, hlogged, nconn, nreq, open>>
    /\ UNCHANGED qvars

\* main.py:138-139
health_conn_close ==
    /\ hpc = "close"
    /\ open' = open \ {hconn}
    /\ hhttp' = ReturnedResponse(HealthOk)
    /\ hpc' = "done"
    /\ UNCHANGED <<hconn, hlogged, nconn, nreq>>
    /\ UNCHANGED qvars

\* The response is sent and the invocation's locals are gone.
HealthDone ==
    /\ hpc = "done"
    /\ hpc' = "idle"
    /\ hconn' = 0
    /\ hhttp' = NoResponse
    /\ hlogged' = {}
    /\ UNCHANGED <<open, nconn, nreq>>
    /\ UNCHANGED qvars

\* ------------------------------------------------------------ specification

Next ==
    \/ PostQuery
    \/ verify_api_key
    \/ handle_request
    \/ get_db_connection
    \/ cursor_execute
    \/ cursor_fetchall
    \/ conn_close
    \/ process_query
    \/ QueryDone
    \/ GetHealth
    \/ health_get_db_connection
    \/ health_conn_close
    \/ HealthDone

Spec == Init /\ [][Next]_vars

\* ------------------------------------------------------------------ claims

\* How often x occurs in seq.
Count(seq, x) == Cardinality({i \in DOMAIN seq : seq[i] = x})

\* The request carries the configured key as its bearer token.
Authenticated == creds.present /\ creds.credentials = API_KEY

\* msg carries a text of the database driver.
DriverTextIn(msg) == \E i \in DOMAIN msg : msg[i] \in DriverTexts

\* The database rejected the query of this invocation.
QueryRejected ==
    /\ "query" \in {events[i] : i \in DOMAIN events}
    /\ "materialize" \notin {events[i] : i \in DOMAIN events}
    /\ pc \in {"close", "process_query", "done"}

\* The invocation touched the database: a connection attempt, a connection,
\* or a statement sent.
TouchedDatabase ==
    \/ conn # 0
    \/ sent # <<>>
    \/ \E i \in DOMAIN events :
           events[i] \in {"connect", "connect_failed", "query", "materialize",
                          "disconnect"}

\* Some keyword of the deny list occurs in the lowercased text.
HasKeyword(s) ==
    \E kw \in {KwDelete, KwDrop, KwUpdate, KwInsert} : Contains(Lower(s), kw)

\* C1: a POST /query request whose bearer token is absent or is not the
\* configured key never gets past the token check: at no point of its
\* handling is a connection opened or a statement sent, and its response is
\* 401.
C1_UnauthorizedNeverTouchesDatabase ==
    (pc # "idle" /\ ~Authenticated) =>
        /\ pc \in {"verify_api_key", "done"}
        /\ ~TouchedDatabase
        /\ pc = "done" => http.status = 401

C1_Witness ==
    /\ pc = "done"
    /\ creds = Bearer("wrong")
    /\ verb = "execute"
    /\ http.status = 401
    /\ open = {}

\* C2 (as claimed): an invocation of handle_request that opens a connection
\* opens exactly one and has closed it exactly once when the invocation has
\* ended, whether its query succeeded or failed.
C2_ConnectionClosedExactlyOnce ==
    (pc \in {"process_query", "done"} /\ Count(events, "connect") > 0) =>
        /\ Count(events, "connect") = 1
        /\ Count(events, "disconnect") = 1
        /\ conn \notin open

\* C3 (as claimed): an authenticated POST /query whose handle_request result
\* has the key error is answered 400 with that message as detail; any other
\* result is answered 200 with the result unchanged.
C3_ErrorResultIs400 ==
    (pc = "done" /\ Authenticated /\ exc.type = "none") =>
        IF "error" \in DOMAIN response_data
        THEN /\ http.status = 400
             /\ http.body.detail = response_data["error"]
        ELSE /\ http.status = 200
             /\ http.body = response_data

\* C4 (as claimed): when opening the connection fails during an
\* authenticated POST /query, the response is a 500 with a generic message:
\* the driver's text is logged and is not in the response.
C4_ConnectionErrorIsGeneric ==
    (pc = "done" /\ Authenticated /\ Count(events, "connect_failed") > 0) =>
        /\ http.status = 500
        /\ \E text \in DriverTexts :
               <<"Database connection failed: ", text>> \in logged
        /\ ~DriverTextIn(http.body.detail)

\* C4 (amended): when opening the connection fails with a driver error
\* during an authenticated POST /query, the response is a 500 whose detail is
\* "Database connection error: " followed by the driver's text; the same text
\* is logged, and no statement is sent.
C4_ConnectionErrorCarriesDriverText ==
    (pc = "done" /\ Authenticated /\ Count(events, "connect_failed") > 0) =>
        /\ http.status = 500
        /\ sent = <<>>
        /\ \E text \in DriverTexts :
               /\ logged = {<<"Database connection failed: ", text>>}
               /\ http.body = [detail |-> <<"Database connection error: ", text>>]

C4_Witness ==
    /\ pc = "done"
    /\ Authenticated
    /\ verb = "read"
    /\ events = <<"token_check", "connect_failed", "respond">>
    /\ http.status = 500
    /\ DriverTextIn(http.body.detail)

\* C5: an execute request whose statement, lowercased, contains delete, drop,
\* update or insert anywhere gets the fixed rejection from handle_request,
\* which neither opens a connection nor sends the statement.
C5_BlockedStatementNeverReachesDatabase ==
    (/\ pc \notin {"idle", "verify_api_key", "handle_request"}
     /\ Authenticated
     /\ verb = "execute"
     /\ HasKeyword(statement.chars)) =>
        /\ pc \in {"process_query", "done"}
        /\ exc.type = "none"
        /\ DOMAIN response_data = {"error"}
        /\ response_data["error"] =
               <<"Only SELECT statements are allowed for security reasons.">>
        /\ ~TouchedDatabase

C5_Witness ==
    /\ pc = "done"
    /\ Authenticated
    /\ verb = "execute"
    /\ statement.chars = <<"D", "R", "O", "P", " ", "t">>
    /\ DOMAIN response_data = {"error"}
    /\ sent = <<>>

\* C6 (as claimed): an execute request with a non-empty, keyword-clean
\* statement that the database rejects makes handle_request return
\* {error: "SQL Error: <driver message>"} without raising, and POST /query
\* answers 400.
C6_SqlErrorIsSoftAnd400 ==
    (pc = "done" /\ Authenticated /\ verb = "execute" /\ QueryRejected) =>
        /\ exc.type = "none"
        /\ DOMAIN response_data = {"error"}
        /\ \E text \in DriverTexts :
               response_data["error"] = <<"SQL Error: ", text>>
        /\ http.status = 400

\* C7: a list_resources or read request whose query the database rejects
\* gets no soft error: the driver's error leaves handle_request, and POST
\* /query answers 500 with the generic message, without the driver's text.
C7_ListReadErrorIsGeneric500 ==
    (/\ pc = "done"
     /\ Authenticated
     /\ verb \in {"list_resources", "read"}
     /\ QueryRejected) =>
        /\ exc.type = "mysql.connector.Error"
        /\ response_data = EmptyDict
        /\ http.status = 500
        /\ http.body = [detail |-> <<"An internal server error occurred.">>]
        /\ ~DriverTextIn(http.body.detail)

C7_Witness ==
    /\ pc = "done"
    /\ Authenticated
    /\ verb = "read"
    /\ QueryRejected
    /\ DriverTextIn(exc.detail)
    /\ http.status = 500

\* C8 (as claimed): a read request without parameters, or without
\* parameters.name, or with an empty one, makes handle_request return
\* {error: "Table name is required for read verb."} without opening a
\* connection, and POST /query answers 400.
C8_MissingTableNameIs400 ==
    (/\ pc = "done"
     /\ Authenticated
     /\ verb = "read"
     /\ \/ "parameters" \notin DOMAIN request_data
        \/ "name" \notin DOMAIN request_data["parameters"]
        \/ request_data["parameters"]["name"].chars = <<>>) =>
        /\ DOMAIN response_data = {"error"}
        /\ response_data["error"] = <<"Table name is required for read verb.">>
        /\ ~TouchedDatabase
        /\ http.status = 400

\* C9: GET /health always answers with a successful HTTP status: status ok
\* exactly when the connection was opened, status error otherwise, and a
\* connection it opened is closed when it answers.
C9_HealthNeverFails ==
    hpc = "done" =>
        /\ hhttp.status = 200
        /\ hhttp.body.status \in {"ok", "error"}
        /\ hhttp.body.status = "ok" <=> hconn # 0
        /\ hconn \notin open

C9_Witness ==
    /\ hpc = "done"
    /\ hconn # 0
    /\ hhttp.body.status = "ok"
    /\ pc = "cursor_execute"

\* The place of an event in the order token check, connect, query,
\* materialize, disconnect, respond.
Rank(e) ==
    CASE e = "token_check" -> 1
      [] e \in {"connect", "connect_failed"} -> 2
      [] e = "query" -> 3
      [] e = "materialize" -> 4
      [] e = "disconnect" -> 5
      [] e = "respond" -> 6

\* C10 (as claimed): within one POST /query handling the events come in the
\* order token check, connect, query, materialize, disconnect, respond; at
\* most one query is executed, only while the invocation's connection is
\* open, and the response is produced only after that connection is closed.
C10_SequentialAndClosedBeforeRespond ==
    /\ \A i, j \in DOMAIN events : i < j => Rank(events[i]) < Rank(events[j])
    /\ Count(events, "query") <= 1
    /\ Len(sent) = Count(events, "query")
    /\ pc \in {"cursor_execute", "fetchall"} => conn \in open
    /\ (Count(events, "respond") > 0 /\ conn # 0) => conn \notin open

====
